---- MODULE Spec2Model ----
(***************************************************************************)
(* Model of the sprocket Vulkan bootstrap: physical-device rating and      *)
(* selection (graphics/vulkan/mod.rs), construction and teardown of the    *)
(* VulkanContext, the deferred-destruction ResourceManager, and the        *)
(* Application life cycle (application.rs).                                *)
(***************************************************************************)
EXTENDS Integers, Sequences, FiniteSets, TLC

VARIABLES
    overflow_checks, \* build profile: TRUE = u32 overflow panics, FALSE = wraps
    devices,         \* find_physical_device: enumerate_physical_devices()
    selPc,           \* find_physical_device: "iter" | "ok" | "err" | "panic" | "idle"
    nextDev,         \* find_physical_device: next element of the zipped iterator
    rated,           \* what rate_device returned for devices[1..nextDev-1]
    best,            \* accumulator of max_by: <<>> (None) or <<[dev, score]>>
    selected,        \* Ok((device, QueueFamilies)) as <<[dev, qf]>>, else <<>>
    ctxPc,           \* init / Drop for VulkanContext: the statement to run next
    alive,           \* GPU objects created and not yet destroyed
    log,             \* destroy and device_wait_idle calls made so far, in order
    imageCount,      \* swapchain.image_count()
    framebuffers,    \* init: length of the framebuffers Vec
    commandbuffers,  \* init: length of the commandbuffers Vec
    commands,        \* commands recorded into each command buffer
    window_extent,   \* window.extent() of windows[0]
    surface_caps,    \* min and max image extent the surface reports
    swapchain_extent,    \* swapchain.extent()
    pipeline_extent,     \* the extent Pipeline::new was given
    framebuffer_extents, \* the extent each Framebuffer::new was given
    appPc,           \* Application: "setup" | "init_graphics" | "running" | "returned"
                     \*              | "dropped" | "panicked" | "idle"
    windows,         \* Application.windows.len()
    graphics_context,\* Application.graphics_context.is_some()
    resource_manager,\* Application.resource_manager.is_some()
    renderer,        \* Application.renderer.is_some()
    errors,          \* messages written with error!
    panicAt,         \* the expression that panicked, "" when none did
    entries,         \* ResourceManager: resource -> [status, refcount, age]
    cleanups,        \* calls of ResourceManager::cleanup so far
    swept,           \* resource -> cleanup calls since its refcount last reached 0
    destroys         \* resource -> times the manager destroyed it

selVars == <<overflow_checks, devices, selPc, nextDev, rated, best, selected>>
extVars == <<window_extent, surface_caps, swapchain_extent, pipeline_extent,
             framebuffer_extents>>
ctxVars == <<ctxPc, alive, log, imageCount, framebuffers, commandbuffers, commands,
             extVars>>

appVars == <<appPc, windows, graphics_context, resource_manager, renderer, errors, panicAt>>
rmVars  == <<entries, cleanups, swept, destroys>>

vars == <<selVars, ctxVars, appVars, rmVars>>

-----------------------------------------------------------------------------
(* Bounds of the model *)
MaxDevices  == 3
MaxFamilies == 2
MaxImages   == 3
MaxWindows  == 2
MaxRefs     == 2
MaxCleanups == 8

Resources == {"r1", "r2"}

(* Program constants *)
Half == 65536
SWAPCHAIN_IMAGE_COUNT == 3
DISCRETE_BONUS == 500
LIMIT_DIVISOR == 10

device_extensions == {"VK_KHR_swapchain"}

None == <<>>
Some(x) == <<x>>

-----------------------------------------------------------------------------
(* u32 values, kept as two 16-bit halves: the value is hi * 2^16 + lo *)

U32(n) == [hi |-> n \div Half, lo |-> n % Half]
U32Max == [hi |-> Half - 1, lo |-> Half - 1]
U32Zero == U32(0)

\* x + y in u32: the wrapped sum, and whether the exact sum left the u32 range
add_u32(x, y) ==
    LET lo == x.lo + y.lo
        hi == x.hi + y.hi + (lo \div Half)
    IN  [val |-> [hi |-> hi % Half, lo |-> lo % Half], overflow |-> hi >= Half]

\* x / n in u32, for a divisor n < 2^16 (long division over the two halves)
div_u32(x, n) ==
    LET rem == x.hi % n
        low == rem * Half + x.lo
    IN  [hi |-> x.hi \div n, lo |-> (low \div n) % Half]

cmp_u32(a, b) ==
    IF a.hi < b.hi \/ (a.hi = b.hi /\ a.lo < b.lo) THEN "Less"
    ELSE IF a = b THEN "Equal" ELSE "Greater"

-----------------------------------------------------------------------------
(* Inputs: what the driver reports for a physical device *)

SeqsUpTo(S, n) == UNION {[1..k -> S] : k \in 0..n}

FamilySet == [graphics : BOOLEAN, compute : BOOLEAN, present : {"yes", "no", "err"}]

SmallLimits == [h |-> U32(40), w |-> U32(40), d |-> U32(40), c |-> U32(8)]

LimitSet ==
    { [h |-> U32(0),  w |-> U32(0), d |-> U32(0), c |-> U32(0)],
      [h |-> U32(10), w |-> U32(0), d |-> U32(0), c |-> U32(0)],
      [h |-> U32(0),  w |-> U32(0), d |-> U32(0), c |-> U32(1)],
      SmallLimits,
      [h |-> U32Max,  w |-> U32Max, d |-> U32Max, c |-> U32Max] }

CapsSet ==
    { [min |-> 2, max |-> 0], [min |-> 2, max |-> 3], [min |-> 3, max |-> 3],
      [min |-> 1, max |-> 2], [min |-> 4, max |-> 0], [min |-> 4, max |-> 8] }

SupportSet ==
    [ok : {TRUE}, caps : CapsSet, formats : 0..1, modes : 0..1]
    \cup { [ok |-> FALSE, caps |-> [min |-> 2, max |-> 0], formats |-> 0, modes |-> 0] }

ExtSet == { [ok |-> TRUE,  names |-> {"VK_KHR_swapchain", "VK_KHR_maintenance1"}],
            [ok |-> TRUE,  names |-> {"VK_KHR_maintenance1"}],
            [ok |-> FALSE, names |-> {}] }

OneFamily == <<[graphics |-> TRUE, compute |-> TRUE, present |-> "yes"]>>
GoodSupport == [ok |-> TRUE, caps |-> [min |-> 2, max |-> 0], formats |-> 1, modes |-> 1]
GoodExt == [ok |-> TRUE, names |-> {"VK_KHR_swapchain", "VK_KHR_maintenance1"}]

Candidate(e, f, s, disc, l) ==
    [ext |-> e, families |-> f, support |-> s, discrete |-> disc, limits |-> l]

\* every queue-family layout under every extension report, and every swapchain
\* support report under every extension report and every layout of at most one family;
\* all on an integrated GPU with small limits
CapabilityCandidates ==
    { Candidate(e, f, GoodSupport, FALSE, SmallLimits) :
        e \in ExtSet, f \in SeqsUpTo(FamilySet, MaxFamilies) }
    \cup { Candidate(e, f, s, FALSE, SmallLimits) :
        e \in ExtSet, f \in SeqsUpTo(FamilySet, 1), s \in SupportSet }

\* capable devices that differ in type and limits, and two that are not capable
ScoredCandidates ==
    { Candidate(GoodExt, OneFamily, GoodSupport, disc, l) : disc \in BOOLEAN, l \in LimitSet }
    \cup { Candidate([ok |-> TRUE, names |-> {"VK_KHR_maintenance1"}], OneFamily, GoodSupport,
                     TRUE, SmallLimits),
           Candidate(GoodExt, OneFamily, [GoodSupport EXCEPT !.formats = 0],
                     TRUE, SmallLimits) }

\* capable devices whose limits bring the sum of rate_device to exactly 2^32:
\* 1 + max_color_attachments, and 1 + 500 + max_color_attachments
WrapLimits ==
    { [h |-> U32(0), w |-> U32(0), d |-> U32(0), c |-> U32Max],
      [h |-> U32(9), w |-> U32(0), d |-> U32(0),
       c |-> [hi |-> Half - 1, lo |-> Half - 1 - DISCRETE_BONUS]] }

WrapCandidates ==
    { Candidate(GoodExt, OneFamily, GoodSupport, disc, l) : disc \in BOOLEAN, l \in WrapLimits }

DeviceLists ==
    { <<c>> : c \in CapabilityCandidates \cup WrapCandidates }
    \cup SeqsUpTo(ScoredCandidates, MaxDevices)

-----------------------------------------------------------------------------
(* QueueFamilies::find *)

\* Result<bool>::unwrap_or(false) of get_physical_device_surface_support
surface_support(f) == f.present = "yes"

\* find_visit as it would be with a guard keeping the first match of each kind
find_visit_keep_first(acc, f, i) ==
    LET a1 == IF f.graphics /\ acc.graphics = None
              THEN [acc EXCEPT !.graphics = Some(i)] ELSE acc
        a2 == IF surface_support(f) /\ a1.present = None
              THEN [a1 EXCEPT !.present = Some(i), !.present_support = surface_support(f)]
              ELSE a1
        a3 == IF f.compute /\ a2.compute = None
              THEN [a2 EXCEPT !.compute = Some(i)] ELSE a2
    IN  a3

\* one iteration of the loop over families.iter().enumerate(); i is the 0-based index
find_visit(acc, f, i) ==
    LET a1 == IF f.graphics THEN [acc EXCEPT !.graphics = Some(i)] ELSE acc
        a2 == IF surface_support(f)
              THEN [a1 EXCEPT !.present = Some(i), !.present_support = surface_support(f)]
              ELSE a1
        a3 == IF f.compute THEN [a2 EXCEPT !.compute = Some(i)] ELSE a2
    IN  a3

RECURSIVE find_loop(_, _, _)
find_loop(families, k, acc) ==
    IF k > Len(families) THEN acc
    ELSE find_loop(families, k + 1, find_visit(acc, families[k], k - 1))

QueueFamilies_find(dev) ==
    find_loop(dev.families, 1,
              [graphics |-> None, present |-> None, compute |-> None,
               present_support |-> FALSE])

-----------------------------------------------------------------------------
(* rate_device *)

\* rate_exit as it would be if max_image_count = 0 were not read as "no limit"
rate_exit_bounded_max(dev) ==
    LET qf == QueueFamilies_find(dev) IN
    IF ~dev.ext.ok THEN "ext_query_err"
    ELSE IF ~(device_extensions \subseteq dev.ext.names) THEN "ext_missing"
    ELSE IF qf.graphics = None THEN "no_graphics"
    ELSE IF qf.present = None THEN "no_present"
    ELSE IF ~qf.present_support THEN "no_present_support"
    ELSE IF ~dev.support.ok THEN "support_query_err"
    ELSE IF \/ dev.support.caps.min > SWAPCHAIN_IMAGE_COUNT
            \/ dev.support.caps.max < SWAPCHAIN_IMAGE_COUNT
         THEN "image_count"
    ELSE IF dev.support.formats = 0 THEN "no_formats"
    ELSE IF dev.support.modes = 0 THEN "no_present_modes"
    ELSE "scored"

\* the return statement rate_device leaves through
rate_exit(dev) ==
    LET qf == QueueFamilies_find(dev) IN
    IF ~dev.ext.ok THEN "ext_query_err"
    ELSE IF ~(device_extensions \subseteq dev.ext.names) THEN "ext_missing"
    ELSE IF qf.graphics = None THEN "no_graphics"
    ELSE IF qf.present = None THEN "no_present"
    ELSE IF ~qf.present_support THEN "no_present_support"
    ELSE IF ~dev.support.ok THEN "support_query_err"
    ELSE IF \/ dev.support.caps.min > SWAPCHAIN_IMAGE_COUNT
            \/ (dev.support.caps.max /= 0 /\ dev.support.caps.max < SWAPCHAIN_IMAGE_COUNT)
         THEN "image_count"
    ELSE IF dev.support.formats = 0 THEN "no_formats"
    ELSE IF dev.support.modes = 0 THEN "no_present_modes"
    ELSE "scored"

\* score += term, remembering an overflow of an earlier addition
score_add(acc, term) ==
    LET s == add_u32(acc.val, term) IN
    [val |-> s.val, overflow |-> acc.overflow \/ s.overflow]

\* lines 332 and 395-402: the additions in the order the code makes them
score_sum(dev) ==
    LET s0 == [val |-> U32(1), overflow |-> FALSE]
        s1 == IF dev.discrete THEN score_add(s0, U32(DISCRETE_BONUS)) ELSE s0
        s2 == score_add(s1, div_u32(dev.limits.h, LIMIT_DIVISOR))
        s3 == score_add(s2, div_u32(dev.limits.w, LIMIT_DIVISOR))
        s4 == score_add(s3, div_u32(dev.limits.d, LIMIT_DIVISOR))
    IN  score_add(s4, dev.limits.c)

\* [exit, score, overflow, qf]: score is the u32 returned when the additions wrap;
\* overflow says one of the additions left the u32 range (a panic under overflow checks)
rate_device(dev) ==
    LET exit == rate_exit(dev) IN
    [ exit     |-> exit,
      score    |-> IF exit = "scored" THEN score_sum(dev).val ELSE U32Zero,
      overflow |-> exit = "scored" /\ score_sum(dev).overflow,
      qf       |-> QueueFamilies_find(dev) ]

-----------------------------------------------------------------------------
(* find_physical_device *)

\* the closure given to max_by: |(_, prev_score), (_, score)| score.cmp(prev_score)
compare_scores(prev, cur) == cmp_u32(cur.score, prev.score)

\* the fold as it would be if an equal element did not replace the accumulator
max_by_fold_keep_equal(acc, y) ==
    IF acc = None THEN Some(y)
    ELSE IF compare_scores(acc[1], y) \in {"Greater", "Equal"} THEN acc ELSE Some(y)

\* Iterator::max_by folds with: match compare(&x, &y) { Greater => x, _ => y }
max_by_fold(acc, y) ==
    IF acc = None THEN Some(y)
    ELSE IF compare_scores(acc[1], y) = "Greater" THEN acc ELSE Some(y)

\* one element of devices.iter().zip(rate_device).filter(score > 0) fed to max_by
FindStep ==
    /\ selPc = "iter"
    /\ nextDev <= Len(devices)
    /\ LET r == rate_device(devices[nextDev]) IN
        IF r.overflow /\ overflow_checks
        THEN /\ selPc' = "panic"
             /\ UNCHANGED <<nextDev, rated, best>>
        ELSE /\ rated' = Append(rated, r)
             /\ best' = IF cmp_u32(r.score, U32Zero) = "Greater"
                        THEN max_by_fold(best, [dev |-> nextDev, score |-> r.score])
                        ELSE best
             /\ nextDev' = nextDev + 1
             /\ selPc' = selPc
    /\ UNCHANGED <<overflow_checks, devices, selected>>
    /\ UNCHANGED <<ctxVars, appVars, rmVars>>

\* the match on the result of max_by, and the Ok tuple
FindFinish ==
    /\ selPc = "iter"
    /\ nextDev > Len(devices)
    /\ IF best = None
       THEN /\ selPc' = "err"
            /\ selected' = None
       ELSE /\ selPc' = "ok"
            /\ selected' = Some([dev |-> best[1].dev,
                                 qf  |-> QueueFamilies_find(devices[best[1].dev])])
    /\ UNCHANGED <<overflow_checks, devices, nextDev, rated, best>>
    /\ UNCHANGED <<ctxVars, appVars, rmVars>>

SelIdle ==
    /\ overflow_checks = FALSE
    /\ devices = <<>>
    /\ selPc = "idle"
    /\ nextDev = 1
    /\ rated = <<>>
    /\ best = None
    /\ selected = None

Extent(w, h) == [w |-> w, h |-> h]
NoExtent == Extent(0, 0)

\* the size the sandbox gives its window: add_window("Sandbox", 800, 600, ..)
SandboxExtent == Extent(800, 600)
WindowExtents == {SandboxExtent, Extent(1920, 1080), Extent(100, 50)}

\* surface capabilities: min_image_extent and max_image_extent
ExtentRanges ==
    { [min |-> Extent(1, 1),     max |-> Extent(4096, 4096)],
      [min |-> Extent(200, 200), max |-> Extent(1024, 768)],
      [min |-> Extent(800, 600), max |-> Extent(800, 600)] }

\* nothing of the context is built yet
NothingBuilt ==
    /\ alive = {}
    /\ log = <<>>
    /\ imageCount = 0
    /\ framebuffers = 0
    /\ commandbuffers = 0
    /\ commands = <<>>
    /\ swapchain_extent = NoExtent
    /\ pipeline_extent = NoExtent
    /\ framebuffer_extents = <<>>

CtxIdle ==
    /\ ctxPc = "idle"
    /\ NothingBuilt
    /\ window_extent = SandboxExtent
    /\ surface_caps = [min |-> Extent(1, 1), max |-> Extent(4096, 4096)]

NoEntry == [status |-> "absent", refcount |-> 0, age |-> 0]

RmEmpty ==
    /\ entries = [r \in Resources |-> NoEntry]
    /\ cleanups = 0
    /\ swept = [r \in Resources |-> 0]
    /\ destroys = [r \in Resources |-> 0]

AppIdle ==
    /\ appPc = "idle"
    /\ windows = 0
    /\ graphics_context = FALSE
    /\ resource_manager = FALSE
    /\ renderer = FALSE
    /\ errors = {}
    /\ panicAt = ""
    /\ RmEmpty

SelInit ==
    /\ overflow_checks \in BOOLEAN
    /\ devices \in DeviceLists
    /\ selPc = "iter"
    /\ nextDev = 1
    /\ rated = <<>>
    /\ best = None
    /\ selected = None
    /\ CtxIdle
    /\ AppIdle

SelNext == FindStep \/ FindFinish

SpecSelect == SelInit /\ [][SelNext]_vars

-----------------------------------------------------------------------------
(* init: construction of the VulkanContext, one fallible call at a time *)

Obj(kind, idx) == [kind |-> kind, idx |-> idx]
Single(kind) == Obj(kind, 0)
Indexed(kind, n) == [i \in 1..n |-> Obj(kind, i - 1)]

\* the fields of VulkanData, wrappers whose drop destroys the object they hold
DataKinds ==
    {"swapchain", "renderpass", "pipeline", "framebuffer", "commandpool", "commandbuffer"}
wrapper_drop(obj) == [op |-> "destroy", obj |-> obj]

\* the wrapper locals of init that are live, in reverse order of declaration: what
\* an early return drops (a Vec drops its elements front to back); the ash handles
\* instance, debug_messenger, surface and device have no destructor
unwind_order ==
    LET locals == Indexed("commandbuffer", commandbuffers)
                  \o << Single("commandpool") >>
                  \o Indexed("framebuffer", framebuffers)
                  \o << Single("pipeline"), Single("renderpass"), Single("swapchain") >>
        IsAlive(o) == o \in alive
    IN  SelectSeq(locals, IsAlive)

\* `?` or unwrap_or_return!: init returns Err and its locals are dropped
ReturnErr ==
    /\ ctxPc' = "failed"
    /\ log' = log \o [k \in 1..Len(unwind_order) |-> wrapper_drop(unwind_order[k])]
    /\ alive' = alive \ {unwind_order[k] : k \in 1..Len(unwind_order)}
    /\ UNCHANGED <<imageCount, framebuffers, commandbuffers, commands, extVars>>

\* a fallible call at `at` that creates `objs` and goes on to `next`
Construct(at, objs, next) ==
    /\ ctxPc = at
    /\ \/ /\ ctxPc' = next
          /\ alive' = alive \cup objs
          /\ UNCHANGED <<log, imageCount, framebuffers, commandbuffers, commands, extVars>>
       \/ ReturnErr
    /\ UNCHANGED <<selVars, appVars, rmVars>>

InitEntry == Construct("entry", {}, "layers")
InitCheckLayers == Construct("layers", {}, "instance")
InitCreateInstance == Construct("instance", {Single("instance")}, "messenger")
InitCreateDebugMessenger ==
    Construct("messenger", {Single("debug_messenger")}, "surface")
InitCreateSurface == Construct("surface", {Single("surface")}, "physical")
InitFindPhysicalDevice == Construct("physical", {}, "device")
InitCreateDevice == Construct("device", {Single("device")}, "swapchain")

clamp(x, lo, hi) == IF x < lo THEN lo ELSE IF x > hi THEN hi ELSE x

\* the extent Swapchain::new chooses: the window's size clamped to the capabilities
choose_extent(win, caps) ==
    Extent(clamp(win.w, caps.min.w, caps.max.w), clamp(win.h, caps.min.h, caps.max.h))

\* Swapchain::new(.., window.extent()), which fixes the number of images and the extent
InitSwapchain ==
    /\ ctxPc = "swapchain"
    /\ \/ \E n \in 1..MaxImages :
            /\ imageCount' = n
            /\ swapchain_extent' = choose_extent(window_extent, surface_caps)
            /\ ctxPc' = "renderpass"
            /\ alive' = alive \cup {Single("swapchain")}
            /\ UNCHANGED <<log, framebuffers, commandbuffers, commands>>
            /\ UNCHANGED <<window_extent, surface_caps, pipeline_extent, framebuffer_extents>>
       \/ ReturnErr
    /\ UNCHANGED <<selVars, appVars, rmVars>>

InitRenderPass == Construct("renderpass", {Single("renderpass")}, "pipeline")

\* Pipeline::new(&device, pipeline_spec, window.extent(), &renderpass)?
InitPipeline ==
    /\ ctxPc = "pipeline"
    /\ \/ /\ ctxPc' = "framebuffers"
          /\ alive' = alive \cup {Single("pipeline")}
          /\ pipeline_extent' = window_extent
          /\ UNCHANGED <<log, imageCount, framebuffers, commandbuffers, commands>>
          /\ UNCHANGED <<window_extent, surface_caps, swapchain_extent, framebuffer_extents>>
       \/ ReturnErr
    /\ UNCHANGED <<selVars, appVars, rmVars>>

\* one iteration of: for i in 0..swapchain.image_count() { framebuffers.push(..?) }
InitFramebuffer ==
    /\ ctxPc = "framebuffers"
    /\ framebuffers < imageCount
    /\ \/ /\ framebuffers' = framebuffers + 1
          /\ alive' = alive \cup {Obj("framebuffer", framebuffers)}
          /\ framebuffer_extents' = Append(framebuffer_extents, swapchain_extent)
          /\ UNCHANGED <<ctxPc, log, imageCount, commandbuffers, commands>>
          /\ UNCHANGED <<window_extent, surface_caps, swapchain_extent, pipeline_extent>>
       \/ ReturnErr
    /\ UNCHANGED <<selVars, appVars, rmVars>>

InitFramebuffersDone ==
    /\ ctxPc = "framebuffers"
    /\ framebuffers = imageCount
    /\ ctxPc' = "commandpool"
    /\ UNCHANGED <<alive, log, imageCount, framebuffers, commandbuffers, commands, extVars>>
    /\ UNCHANGED <<selVars, appVars, rmVars>>

InitCommandPool == Construct("commandpool", {Single("commandpool")}, "commandbuffers")

\* the number of buffers CommandBuffer::new_primary(device, pool, count) returns
new_primary(count) == count

\* CommandBuffer::new_primary(&device, &commandpool, swapchain.image_count())
InitCommandBuffers ==
    /\ ctxPc = "commandbuffers"
    /\ \/ /\ commandbuffers' = new_primary(imageCount)
          /\ commands' = [i \in 1..new_primary(imageCount) |-> <<>>]
          /\ alive' = alive \cup {Obj("commandbuffer", i - 1) :
                                      i \in 1..new_primary(imageCount)}
          /\ ctxPc' = "record"
          /\ UNCHANGED <<log, imageCount, framebuffers, extVars>>
       \/ ReturnErr
    /\ UNCHANGED <<selVars, appVars, rmVars>>

\* the buffer the prerecording loop is at: the first one with nothing recorded
recording == IF \E i \in 1..Len(commands) : commands[i] = <<>>
             THEN CHOOSE i \in 1..Len(commands) :
                      commands[i] = <<>> /\ \A j \in 1..(i - 1) : commands[j] /= <<>>
             ELSE 0

\* math::Vec4::new(0.0, 0.0, 0.01, 1.0), in hundredths
CLEAR_COLOR == <<0, 0, 1, 100>>

\* begin_renderpass(&renderpass, &framebuffers[fb], clear)
begin_renderpass(fb, clear) == [kind |-> "begin_renderpass", idx |-> fb, clear |-> clear]

\* what one iteration records between begin() and end(), for the buffer at index i
record_body(i) ==
    << begin_renderpass(i, CLEAR_COLOR), "bind_pipeline", "draw", "end_renderpass" >>

\* InitRecord as it would be if every buffer were recorded against framebuffers[0]
InitRecord_first_framebuffer ==
    /\ ctxPc = "record"
    /\ recording /= 0
    /\ \/ /\ commands' = [commands EXCEPT ![recording] =
                   @ \o << "begin" >>
                     \o << begin_renderpass(0, CLEAR_COLOR), "bind_pipeline", "draw",
                           "end_renderpass" >>
                     \o << "end" >>]
          /\ UNCHANGED <<ctxPc, alive, log, imageCount, framebuffers, commandbuffers>>
          /\ UNCHANGED extVars
       \/ ReturnErr
    /\ UNCHANGED <<selVars, appVars, rmVars>>

\* one iteration of the prerecording loop (lines 170-181)
InitRecord ==
    /\ ctxPc = "record"
    /\ recording /= 0
    /\ \/ /\ commands' = [commands EXCEPT ![recording] =
                   @ \o << "begin" >> \o record_body(recording - 1) \o << "end" >>]
          /\ UNCHANGED <<ctxPc, alive, log, imageCount, framebuffers, commandbuffers>>
          /\ UNCHANGED extVars
       \/ ReturnErr       \* commandbuffer.begin()?
       \/ \* commandbuffer.end()? after the body has been recorded
          /\ ctxPc' = "failed"
          /\ commands' = [commands EXCEPT ![recording] =
                   @ \o << "begin" >> \o record_body(recording - 1)]
          /\ log' = log \o [k \in 1..Len(unwind_order) |-> wrapper_drop(unwind_order[k])]
          /\ alive' = alive \ {unwind_order[k] : k \in 1..Len(unwind_order)}
          /\ UNCHANGED <<imageCount, framebuffers, commandbuffers, extVars>>
    /\ UNCHANGED <<selVars, appVars, rmVars>>

\* Ok(VulkanContext { .., data: Some(VulkanData { .. }) })
InitOk ==
    /\ ctxPc = "record"
    /\ recording = 0
    /\ ctxPc' = "ready"
    /\ UNCHANGED <<alive, log, imageCount, framebuffers, commandbuffers, commands, extVars>>
    /\ UNCHANGED <<selVars, appVars, rmVars>>

-----------------------------------------------------------------------------
(* impl Drop for VulkanContext *)

\* the fields of VulkanData in declaration order, the order their drop runs in
data_drop_order ==
    << Single("swapchain"), Single("renderpass"), Single("pipeline") >>
    \o Indexed("framebuffer", framebuffers)
    \o << Single("commandpool") >>
    \o Indexed("commandbuffer", commandbuffers)

\* self.data = None
DropData ==
    /\ ctxPc = "ready"
    /\ appPc = "dropped"
    /\ ctxPc' = "wait_idle"
    /\ log' = log \o [k \in 1..Len(data_drop_order) |-> wrapper_drop(data_drop_order[k])]
    /\ alive' = alive \ {data_drop_order[k] : k \in 1..Len(data_drop_order)}
    /\ UNCHANGED <<imageCount, framebuffers, commandbuffers, commands, extVars>>
    /\ UNCHANGED <<selVars, appVars, rmVars>>

\* self.device.device_wait_idle().unwrap()
DropWaitIdle ==
    /\ ctxPc = "wait_idle"
    /\ \/ /\ ctxPc' = "destroy_device"
          /\ log' = Append(log, [op |-> "wait_idle", obj |-> Single("device")])
       \/ /\ ctxPc' = "drop_panicked"
          /\ log' = log
    /\ UNCHANGED <<alive, imageCount, framebuffers, commandbuffers, commands, extVars>>
    /\ UNCHANGED <<selVars, appVars, rmVars>>

\* one of the four destroy calls that end Drop
Destroy(at, obj, next) ==
    /\ ctxPc = at
    /\ ctxPc' = next
    /\ log' = Append(log, [op |-> "destroy", obj |-> obj])
    /\ alive' = alive \ {obj}
    /\ UNCHANGED <<imageCount, framebuffers, commandbuffers, commands, extVars>>
    /\ UNCHANGED <<selVars, appVars, rmVars>>

DropDestroyDevice == Destroy("destroy_device", Single("device"), "destroy_surface")
DropDestroySurface == Destroy("destroy_surface", Single("surface"), "destroy_messenger")
DropDestroyMessenger ==
    Destroy("destroy_messenger", Single("debug_messenger"), "destroy_instance")
DropDestroyInstance == Destroy("destroy_instance", Single("instance"), "dropped")

-----------------------------------------------------------------------------
(* ResourceManager *)

\* register: a new entry with age 0 and refcount 1
register(ents, r) == [ents EXCEPT ![r] = [status |-> "live", refcount |-> 1, age |-> 0]]

\* clone_handle: one more counted reference
clone_handle(ents, r) == [ents EXCEPT ![r].refcount = @ + 1]

\* release: one reference fewer; nothing is destroyed here
release(ents, r) == [ents EXCEPT ![r].refcount = @ - 1]

\* cleanup as it would be if it did not look at the reference count
cleanup_by_age_alone(ents, max_age) ==
    [r \in DOMAIN ents |->
        IF ents[r].status /= "live" THEN ents[r]
        ELSE IF ents[r].age + 1 > max_age
             THEN [status |-> "destroyed", refcount |-> 0, age |-> ents[r].age + 1]
             ELSE [ents[r] EXCEPT !.age = @ + 1]]

\* cleanup as it would be if it destroyed at age max_age instead of past it
cleanup_one_tick_early(ents, max_age) ==
    [r \in DOMAIN ents |->
        IF ents[r].status /= "live" THEN ents[r]
        ELSE IF ents[r].refcount = 0 /\ ents[r].age + 1 >= max_age
             THEN [status |-> "destroyed", refcount |-> 0, age |-> ents[r].age + 1]
             ELSE [ents[r] EXCEPT !.age = @ + 1]]

\* cleanup(max_age): every entry ages by one tick, then every entry with refcount
\* zero and age above max_age is destroyed and removed
cleanup(ents, max_age) ==
    [r \in DOMAIN ents |->
        IF ents[r].status /= "live" THEN ents[r]
        ELSE IF ents[r].refcount = 0 /\ ents[r].age + 1 > max_age
             THEN [status |-> "destroyed", refcount |-> 0, age |-> ents[r].age + 1]
             ELSE [ents[r] EXCEPT !.age = @ + 1]]

\* the renderer's components use the manager while frames are drawn
RendererActive == appPc = "running" /\ renderer /\ resource_manager

Register(r) ==
    /\ RendererActive
    /\ entries[r].status = "absent"
    /\ entries' = register(entries, r)
    /\ UNCHANGED <<cleanups, swept, destroys>>
    /\ UNCHANGED <<selVars, ctxVars, appVars>>

CloneHandle(r) ==
    /\ RendererActive
    /\ entries[r].status = "live"
    /\ entries[r].refcount > 0
    /\ entries[r].refcount < MaxRefs
    /\ entries' = clone_handle(entries, r)
    /\ UNCHANGED <<cleanups, swept, destroys>>
    /\ UNCHANGED <<selVars, ctxVars, appVars>>

Release(r) ==
    /\ RendererActive
    /\ entries[r].status = "live"
    /\ entries[r].refcount > 0
    /\ entries' = release(entries, r)
    /\ swept' = [swept EXCEPT ![r] = 0]
    /\ UNCHANGED <<cleanups, destroys>>
    /\ UNCHANGED <<selVars, ctxVars, appVars>>

-----------------------------------------------------------------------------
(* Application *)

\* the argument of cleanup in Application::run
CLEANUP_MAX_AGE == 5

\* add_window
AddWindow ==
    /\ appPc = "setup"
    /\ windows < MaxWindows
    /\ windows' = windows + 1
    /\ UNCHANGED <<appPc, graphics_context, resource_manager, renderer, errors, panicAt>>
    /\ UNCHANGED <<selVars, ctxVars, rmVars>>

\* init_graphics up to the call of graphics::init with &self.windows[0]
InitGraphicsCall ==
    /\ appPc = "setup"
    /\ ctxPc = "idle"
    /\ IF windows = 0
       THEN /\ appPc' = "panicked"
            /\ panicAt' = "windows[0]"
            /\ UNCHANGED ctxPc
       ELSE /\ appPc' = "init_graphics"
            /\ ctxPc' = "entry"
            /\ UNCHANGED panicAt
    /\ UNCHANGED <<windows, graphics_context, resource_manager, renderer, errors>>
    /\ UNCHANGED <<alive, log, imageCount, framebuffers, commandbuffers, commands, extVars>>
    /\ UNCHANGED <<selVars, rmVars>>

\* init_graphics from the match on the result of graphics::init to its end
InitGraphicsReturn ==
    /\ appPc = "init_graphics"
    /\ ctxPc \in {"ready", "failed"}
    /\ IF ctxPc = "failed"
       THEN \* Err(msg): logged, None stored, and None unwrapped on line 52
            /\ errors' = errors \cup {"Failed to initialize graphics"}
            /\ appPc' = "panicked"
            /\ panicAt' = "graphics_context.unwrap"
            /\ UNCHANGED <<graphics_context, resource_manager, renderer>>
       ELSE /\ graphics_context' = TRUE
            /\ resource_manager' = TRUE
            /\ \E renderer_ok \in BOOLEAN :
                 /\ renderer' = renderer_ok
                 /\ errors' = IF renderer_ok THEN errors
                              ELSE errors \cup {"Failed to create renderer"}
            /\ appPc' = "setup"
            /\ UNCHANGED panicAt
    /\ UNCHANGED windows
    /\ UNCHANGED <<selVars, ctxVars, rmVars>>

\* run, up to the first test of the loop condition
Run ==
    /\ appPc = "setup"
    /\ appPc' = "running"
    /\ UNCHANGED <<windows, graphics_context, resource_manager, renderer, errors, panicAt>>
    /\ UNCHANGED <<selVars, ctxVars, rmVars>>

\* one pass through the body of the while loop of run
RunIteration ==
    /\ appPc = "running"
    /\ windows > 0
    /\ \E cleanup_signaled \in BOOLEAN, timer_signaled \in BOOLEAN, closed \in 0..windows :
        /\ cleanup_signaled => cleanups < MaxCleanups
        /\ IF cleanup_signaled /\ ~resource_manager
           THEN /\ appPc' = "panicked"
                /\ panicAt' = "resource_manager.unwrap (cleanup)"
                /\ UNCHANGED <<windows, rmVars>>
           ELSE /\ IF cleanup_signaled
                   THEN /\ entries' = cleanup(entries, CLEANUP_MAX_AGE)
                        /\ cleanups' = cleanups + 1
                        /\ swept' = [r \in Resources |->
                                        IF entries[r].status = "live" /\ entries[r].refcount = 0
                                        THEN swept[r] + 1 ELSE swept[r]]
                        /\ destroys' = [r \in Resources |->
                                        IF entries[r].status = "live"
                                           /\ entries'[r].status = "destroyed"
                                        THEN destroys[r] + 1 ELSE destroys[r]]
                   ELSE UNCHANGED rmVars
                /\ IF timer_signaled /\ ~resource_manager
                   THEN /\ appPc' = "panicked"
                        /\ panicAt' = "resource_manager.unwrap (info)"
                        /\ UNCHANGED windows
                   ELSE /\ windows' = windows - closed
                        /\ UNCHANGED <<appPc, panicAt>>
    /\ UNCHANGED <<graphics_context, resource_manager, renderer, errors>>
    /\ UNCHANGED <<selVars, ctxVars>>

\* the loop condition fails: run returns
RunReturn ==
    /\ appPc = "running"
    /\ windows = 0
    /\ appPc' = "returned"
    /\ UNCHANGED <<windows, graphics_context, resource_manager, renderer, errors, panicAt>>
    /\ UNCHANGED <<selVars, ctxVars, rmVars>>

\* impl Drop for Application, and the drop of its fields after it; the manager
\* and its bookkeeping go with the last reference to it
AppDrop ==
    /\ appPc \in {"setup", "returned"}
    /\ appPc' = "dropped"
    /\ resource_manager' = FALSE
    /\ renderer' = FALSE
    /\ graphics_context' = FALSE
    /\ entries' = [r \in Resources |-> NoEntry]
    /\ cleanups' = 0
    /\ swept' = [r \in Resources |-> 0]
    /\ destroys' = [r \in Resources |-> 0]
    /\ UNCHANGED <<windows, errors, panicAt>>
    /\ UNCHANGED <<selVars, ctxVars>>

AppInit ==
    /\ SelIdle
    /\ CtxIdle
    /\ appPc = "setup"
    /\ windows = 0
    /\ graphics_context = FALSE
    /\ resource_manager = FALSE
    /\ renderer = FALSE
    /\ errors = {}
    /\ panicAt = ""
    /\ RmEmpty

Init == AppInit

Next ==
    \/ AddWindow \/ InitGraphicsCall \/ InitGraphicsReturn
    \/ InitEntry \/ InitCheckLayers \/ InitCreateInstance \/ InitCreateDebugMessenger
    \/ InitCreateSurface \/ InitFindPhysicalDevice \/ InitCreateDevice \/ InitSwapchain
    \/ InitRenderPass \/ InitPipeline \/ InitFramebuffer \/ InitFramebuffersDone
    \/ InitCommandPool \/ InitCommandBuffers \/ InitRecord \/ InitOk
    \/ Run \/ RunIteration \/ RunReturn
    \/ \E r \in Resources : Register(r) \/ CloneHandle(r) \/ Release(r)
    \/ AppDrop
    \/ DropData \/ DropWaitIdle \/ DropDestroyDevice \/ DropDestroySurface
    \/ DropDestroyMessenger \/ DropDestroyInstance

Spec == Init /\ [][Next]_vars

\* graphics::init called on its own, for every window size and surface capability range
CtxInit ==
    /\ SelIdle
    /\ appPc = "init_graphics"
    /\ windows = 1
    /\ graphics_context = FALSE
    /\ resource_manager = FALSE
    /\ renderer = FALSE
    /\ errors = {}
    /\ panicAt = ""
    /\ RmEmpty
    /\ ctxPc = "entry"
    /\ NothingBuilt
    /\ window_extent \in WindowExtents
    /\ surface_caps \in ExtentRanges

CtxNext ==
    \/ InitEntry \/ InitCheckLayers \/ InitCreateInstance \/ InitCreateDebugMessenger
    \/ InitCreateSurface \/ InitFindPhysicalDevice \/ InitCreateDevice \/ InitSwapchain
    \/ InitRenderPass \/ InitPipeline \/ InitFramebuffer \/ InitFramebuffersDone
    \/ InitCommandPool \/ InitCommandBuffers \/ InitRecord \/ InitOk

SpecInit == CtxInit /\ [][CtxNext]_vars

-----------------------------------------------------------------------------
(* Properties of device rating and selection *)

Positive(j) == cmp_u32(rated[j].score, U32Zero) = "Greater"
ScoreLeq(j, k) == cmp_u32(rated[j].score, rated[k].score) \in {"Less", "Equal"}
Returned == selected[1].dev
Finished == selPc \in {"ok", "err"}

\* C1: find_physical_device returns the candidate whose score is the maximum among
\* the candidates with score > 0, and fails iff every candidate scores 0.
C1_ReturnsMaxScore ==
    Finished =>
        /\ (selPc = "err") <=> (\A j \in 1..Len(rated) : ~Positive(j))
        /\ selPc = "ok" =>
              /\ Positive(Returned)
              /\ \A j \in 1..Len(rated) : Positive(j) => ScoreLeq(j, Returned)

HighestScored ==
    { j \in 1..Len(rated) :
        Positive(j) /\ \A k \in 1..Len(rated) : Positive(k) => ScoreLeq(k, j) }

\* C2 as stated: when two or more candidates with score > 0 share the highest score,
\* the one that comes first in enumeration order is returned.
C2_FirstOfHighestWins ==
    (selPc = "ok" /\ Cardinality(HighestScored) >= 2) =>
        \A j \in HighestScored : Returned <= j

SharingReturnedScore ==
    { j \in 1..Len(rated) : Positive(j) /\ rated[j].score = rated[Returned].score }

\* C2 as amended: when two or more candidates with score > 0 share the score of the
\* returned candidate, the returned one is the last of them in enumeration order.
C2_LastOfEqualWins ==
    selPc = "ok" => \A j \in SharingReturnedScore : j <= Returned

C2_Witness ==
    /\ selPc = "ok"
    /\ Cardinality(SharingReturnedScore) >= 2
    /\ \E j \in SharingReturnedScore : j < Returned /\ devices[j] /= devices[Returned]

ExtensionMissing(dev) == ~(device_extensions \subseteq dev.ext.names)
NoGraphicsFamily(dev) == \A k \in DOMAIN dev.families : ~dev.families[k].graphics
NoPresentFamily(dev) == \A k \in DOMAIN dev.families : dev.families[k].present /= "yes"
ImageCountExcluded(dev) ==
    \/ SWAPCHAIN_IMAGE_COUNT < dev.support.caps.min
    \/ (dev.support.caps.max /= 0 /\ dev.support.caps.max < SWAPCHAIN_IMAGE_COUNT)
Disqualified(dev) ==
    \/ ExtensionMissing(dev)
    \/ NoGraphicsFamily(dev)
    \/ NoPresentFamily(dev)
    \/ ImageCountExcluded(dev)
    \/ dev.support.formats = 0
    \/ dev.support.modes = 0

\* C6: rate_device returns 0 for a candidate with a missing required extension, no
\* graphics family, no family presenting to the surface, an image-count range that
\* excludes SWAPCHAIN_IMAGE_COUNT, no surface format or no present mode, whatever its
\* other capabilities; and a candidate with {min: 2, max: 0} and none of these passes
\* every disqualifying return.
C6_DisqualifiedScoresZero ==
    \A j \in 1..Len(rated) :
        /\ Disqualified(devices[j]) => rated[j].score = U32Zero
        /\ ( /\ ~Disqualified(devices[j])
             /\ devices[j].support.ok
             /\ devices[j].support.caps = [min |-> 2, max |-> 0] )
           => rated[j].exit = "scored"

\* a device rated 0 for its image-count range alone, and one accepted with {2, 0}
C6_Witness ==
    \E j \in 1..Len(rated) :
        /\ ~ExtensionMissing(devices[j])
        /\ ~NoGraphicsFamily(devices[j]) /\ ~NoPresentFamily(devices[j])
        /\ devices[j].support.ok
        /\ devices[j].support.formats = 1 /\ devices[j].support.modes = 1
        /\ devices[j].support.caps = [min |-> 1, max |-> 2]
        /\ rated[j].score = U32Zero

\* C13: rate_device returns a value >= 1 for every candidate that meets none of the
\* disqualifying conditions, for all u32 values of the limits, so that a viable
\* device is never removed by the score > 0 filter of find_physical_device.
C13_ViableScoresPositive ==
    /\ selPc /= "panic"
    /\ \A j \in 1..Len(rated) :
          (~Disqualified(devices[j]) /\ devices[j].ext.ok /\ devices[j].support.ok)
              => Positive(j)

HasGraphics(f) == f.graphics
HasPresent(f) == f.present = "yes"
HasCompute(f) == f.compute

FirstWith(fams, Has(_)) ==
    IF \E k \in DOMAIN fams : Has(fams[k])
    THEN Some((CHOOSE k \in DOMAIN fams :
                 Has(fams[k]) /\ \A m \in DOMAIN fams : Has(fams[m]) => k <= m) - 1)
    ELSE None

LastWith(fams, Has(_)) ==
    IF \E k \in DOMAIN fams : Has(fams[k])
    THEN Some((CHOOSE k \in DOMAIN fams :
                 Has(fams[k]) /\ \A m \in DOMAIN fams : Has(fams[m]) => m <= k) - 1)
    ELSE None

\* every QueueFamilies record the selection has computed, with the families it is of
FoundRecords ==
    { <<devices[j].families, rated[j].qf>> : j \in 1..Len(rated) }
    \cup (IF selPc = "ok" THEN { <<devices[Returned].families, selected[1].qf>> } ELSE {})

\* C7 as stated: QueueFamilies::find records the index of the FIRST family that
\* supports graphics, presentation and compute, and "not found" when none does.
C7_RecordsFirstFamily ==
    \A r \in FoundRecords :
        /\ r[2].graphics = FirstWith(r[1], HasGraphics)
        /\ r[2].present  = FirstWith(r[1], HasPresent)
        /\ r[2].compute  = FirstWith(r[1], HasCompute)

\* C7 as amended: QueueFamilies::find records the index of the LAST family that
\* supports graphics, presentation and compute, and "not found" when none does.
C7_RecordsLastFamily ==
    \A r \in FoundRecords :
        /\ r[2].graphics = LastWith(r[1], HasGraphics)
        /\ r[2].present  = LastWith(r[1], HasPresent)
        /\ r[2].compute  = LastWith(r[1], HasCompute)

\* two graphics families, of which the second is the one recorded
C7_Witness ==
    \E r \in FoundRecords :
        /\ Len(r[1]) >= 2
        /\ r[1][1].graphics /\ r[1][2].graphics
        /\ r[2].graphics = Some(1)
        /\ r[1][1].present = "yes" /\ r[2].present /= Some(0)

-----------------------------------------------------------------------------
(* Properties of teardown and of failed construction *)

InDrop ==
    ctxPc \in {"wait_idle", "destroy_device", "destroy_surface", "destroy_messenger",
               "destroy_instance", "dropped", "drop_panicked"}

Destroys(k) == log[k].op = "destroy"

\* C3: in Drop for VulkanContext, device_wait_idle comes before any destruction of
\* the swapchain, render pass, pipeline, framebuffers, command pool or command buffers.
C3_IdleWaitBeforeDestruction ==
    InDrop =>
        \A k \in DOMAIN log :
            (Destroys(k) /\ log[k].obj.kind \in DataKinds)
                => \E m \in 1..(k - 1) : log[m].op = "wait_idle"

TeardownRank(kind) ==
    CASE kind \in {"commandpool", "commandbuffer"} -> 1
      [] kind = "framebuffer"     -> 2
      [] kind = "pipeline"        -> 3
      [] kind = "renderpass"      -> 4
      [] kind = "swapchain"       -> 5
      [] kind = "surface"         -> 6
      [] kind = "debug_messenger" -> 7
      [] kind = "device"          -> 8
      [] kind = "instance"        -> 9

\* C4: teardown destroys command pool/buffers, then framebuffers, then pipeline, then
\* render pass, then swapchain, then surface, then debug messenger, then the logical
\* device, then the instance: no object is destroyed before one that precedes it
\* in this order.
C4_ReverseConstructionOrder ==
    ctxPc = "dropped" =>
        \A p \in DOMAIN log : \A q \in DOMAIN log :
            (p < q /\ Destroys(p) /\ Destroys(q))
                => TeardownRank(log[p].obj.kind) <= TeardownRank(log[q].obj.kind)

\* C5: when a step of init fails, every object the earlier steps created has been
\* released: no GPU object remains allocated after a failed init.
C5_FailedInitReleasesAll ==
    ctxPc = "failed" => alive = {}

\* C10: a construction failure in init_graphics is logged and aborts startup: the
\* absent context is not used, and the run loop is not entered after a failure.
C10_FailureAbortsStartup ==
    /\ panicAt /= "graphics_context.unwrap"
    /\ errors /= {} => appPc \notin {"running", "returned"}

\* C14: in every execution of run, after any sequence of new, add_window and an
\* optional init_graphics, the resource manager is unwrapped for cleanup or info only
\* where it exists: the run loop never panics on an absent resource manager.
C14_RunNeverUnwrapsAbsentManager ==
    panicAt \notin {"resource_manager.unwrap (cleanup)", "resource_manager.unwrap (info)"}

-----------------------------------------------------------------------------
(* Properties of the ResourceManager under the cleanup(5) of Application::run *)

\* cleanup ages every entry, so an entry's age counts the cleanup calls since register
CleanupsSinceRegister(r) == entries[r].age

C9_ReferencedNeverDestroyed ==
    [][ \A r \in Resources :
            (entries[r].status = "live" /\ entries[r].refcount > 0 /\ appPc' = "running")
                => (entries'[r].status = "live" /\ destroys'[r] = destroys[r]) ]_vars

\* an entry still referenced and live although its age is above max_age
C9_Witness ==
    \E r \in Resources :
        /\ entries[r].status = "live"
        /\ entries[r].refcount > 0
        /\ entries[r].age > CLEANUP_MAX_AGE + 1
        /\ cleanups > CLEANUP_MAX_AGE + 1

-----------------------------------------------------------------------------
(* Properties of what init builds *)

\* C11: the pipeline and every framebuffer are built for the same extent, which is
\* the extent the swapchain chose: the window's size clamped to the surface's range.
C11_OneExtentForPipelineAndFramebuffers ==
    ctxPc = "ready" =>
        /\ swapchain_extent = choose_extent(window_extent, surface_caps)
        /\ pipeline_extent = swapchain_extent
        /\ \A i \in 1..Len(framebuffer_extents) : framebuffer_extents[i] = swapchain_extent

\* the commands the buffer at index i holds after its one recording
Recorded(i) ==
    << "begin", [kind |-> "begin_renderpass", idx |-> i, clear |-> <<0, 0, 1, 100>>],
       "bind_pipeline", "draw", "end_renderpass", "end" >>

\* C12: init builds one framebuffer and one primary command buffer per swapchain
\* image, and records buffer i exactly once with begin, begin-render-pass against
\* framebuffer i with the clear color, bind pipeline, draw, end-render-pass, end;
\* a buffer whose begin or end failed leaves init failed, never ready.
C12_OneRecordedBufferPerImage ==
    /\ ctxPc = "ready" =>
          /\ framebuffers = imageCount
          /\ commandbuffers = imageCount
          /\ Len(framebuffer_extents) = imageCount
          /\ Len(commands) = imageCount
          /\ \A i \in 0..(imageCount - 1) :
                /\ Obj("framebuffer", i) \in alive
                /\ Obj("commandbuffer", i) \in alive
                /\ commands[i + 1] = Recorded(i)
    /\ \A i \in 1..Len(commands) :
          /\ Len(commands[i]) \in {0, 5, 6}
          /\ Len(commands[i]) = 6 => commands[i] = Recorded(i - 1)
          /\ Len(commands[i]) = 5 => ctxPc = "failed"
          /\ \A k \in 1..(i - 1) : commands[i] /= <<>> => Len(commands[k]) = 6

C12_Witness ==
    /\ ctxPc = "ready"
    /\ imageCount >= 2
    /\ commands[imageCount] = Recorded(imageCount - 1)
====
